---- MODULE Spec2Model ----
(***************************************************************************)
(* Chirp: a CQRS / event-sourcing micro-posting backend.                   *)
(*                                                                         *)
(* The module models the write side (event store, aggregates, command      *)
(* handlers), the read side (read-model repository, event projector) and   *)
(* the driving loop `handle a command, then projectEventsAfterCommand`.    *)
(*                                                                         *)
(* Every `await` of the TypeScript source is a point where another async   *)
(* call can run.  A repository or event-store method has no await inside   *)
(* (isCelebrity excepted, which only reads), so its body runs when it is   *)
(* called and the caller resumes one scheduling step later.  A command     *)
(* flow is therefore a sequence of steps: the read-model checks, the load  *)
(* of the aggregate, the decision together with the append, the pick of    *)
(* the last event and the projection of the picked event.                  *)
(***************************************************************************)
EXTENDS Integers, Sequences, FiniteSets, TLC

(***************************************************************************)
(* Bounds of the model.                                                    *)
(*   MaxUsers         the users registered at the start of SpecSocial,     *)
(*                    and the users who send commands                      *)
(*   MaxAccounts      user ids: SpecDeparted starts with one more          *)
(*                    registered user, who has sent its commands already   *)
(*   MaxChirps        chirps posted in a run                               *)
(*   MaxRels          follow relationships created in a run                *)
(*   MaxClock         the last millisecond of the clock (events can share  *)
(*                    a millisecond, or not)                               *)
(*   MaxEvents        events appended in a run of Spec                     *)
(*   MaxRegistered    users registered in a run of Spec                    *)
(*   MaxSocialEvents  events appended in a run of SpecSocial, after the    *)
(*                    registrations                                        *)
(*   MaxFollowedEvents events appended in a run of SpecFollowed, after    *)
(*                    the registrations and the first follows              *)
(*   MaxAwaitEvents   events appended in a run of SpecAwait, after the    *)
(*                    registrations and the first follows                  *)
(*   MaxDepartedEvents events appended in a run of SpecDeparted, after    *)
(*                    its starting log                                     *)
(*   MaxDepartedRels  follow relationships created in a run of            *)
(*                    SpecDeparted                                         *)
(***************************************************************************)
MaxUsers == 4
MaxAccounts == 5
MaxChirps == 3
MaxRels == 3
MaxClock == 1
MaxEvents == 5
MaxRegistered == 2
MaxSocialEvents == 4
MaxFollowedEvents == 4
MaxAwaitEvents == 3
MaxDepartedEvents == 3
MaxDepartedRels == 1

(***************************************************************************)
(* Tunables of the read model.  The source sets 1000 and 800; the model    *)
(* keeps the comparisons of the source and scales the two numbers down so  *)
(* that "below", "equal to" and "above" the threshold, and a truncated     *)
(* timeline, are reached with a handful of users and chirps.               *)
(***************************************************************************)
CELEBRITY_THRESHOLD == 2
MAX_TIMELINE_SIZE == 2

Sessions == {"s1", "s2"}
UsernameOf == <<"alice", "bob", "carol", "dave", "erin">>
Usernames == {UsernameOf[i] : i \in 1..MaxUsers}

(***************************************************************************)
(* Identifiers.  crypto.randomUUID() never repeats: the k-th identifier of *)
(* a kind is <<kind, k>>.                                                  *)
(***************************************************************************)
Nil == <<"nil", 0>>
NoName == ""
UserIds == {<<"user", i>> : i \in 1..MaxAccounts}
ChirpIds == {<<"chirp", i>> : i \in 1..MaxChirps}
RelIds == {<<"rel", i>> : i \in 1..MaxRels}

(***************************************************************************)
(* Domain events (BaseDomainEvent and its five subclasses).  Every event   *)
(* carries the header of BaseDomainEvent; the fields of the other event    *)
(* kinds are Nil / NoName.                                                 *)
(***************************************************************************)
BaseDomainEvent(eventId, aggregateId, eventType, version, now) ==
  [eventId |-> eventId, aggregateId |-> aggregateId, eventType |-> eventType,
   occurredOn |-> now, version |-> version,
   username |-> NoName, authorId |-> Nil, postedAt |-> 0,
   followerId |-> Nil, followeeId |-> Nil]

UserRegistered(eventId, userId, username, version, now) ==
  [BaseDomainEvent(eventId, userId, "UserRegistered", version, now)
     EXCEPT !.username = username]

\* postedAt is a second `new Date()` taken in the same synchronous
\* constructor as occurredOn: the model reads the clock once for both.
ChirpPosted(eventId, chirpId, authorId, version, now) ==
  [BaseDomainEvent(eventId, chirpId, "ChirpPosted", version, now)
     EXCEPT !.authorId = authorId, !.postedAt = now]

ChirpDeleted(eventId, chirpId, version, now) ==
  BaseDomainEvent(eventId, chirpId, "ChirpDeleted", version, now)

UserFollowed(eventId, relationshipId, followerId, followeeId, version, now) ==
  [BaseDomainEvent(eventId, relationshipId, "UserFollowed", version, now)
     EXCEPT !.followerId = followerId, !.followeeId = followeeId]

UserUnfollowed(eventId, relationshipId, followerId, followeeId, version, now) ==
  [BaseDomainEvent(eventId, relationshipId, "UserUnfollowed", version, now)
     EXCEPT !.followerId = followerId, !.followeeId = followeeId]

(***************************************************************************)
(* Sequence helpers.                                                       *)
(***************************************************************************)
Range(s) == {s[i] : i \in 1..Len(s)}

RECURSIVE Flatten(_)
Flatten(ss) == IF ss = <<>> THEN <<>> ELSE Head(ss) \o Flatten(Tail(ss))

Last(s) == s[Len(s)]
Front(s) == SubSeq(s, 1, Len(s) - 1)

\* Array.prototype.filter on a sequence of identifiers.
RECURSIVE FilterOut(_, _)
FilterOut(s, drop) ==
  IF s = <<>> THEN <<>>
  ELSE IF Head(s) \in drop THEN FilterOut(Tail(s), drop)
       ELSE <<Head(s)>> \o FilterOut(Tail(s), drop)

\* [...new Set(s)]: the first occurrence of every element, in order.
RECURSIVE Dedupe(_)
Dedupe(s) ==
  IF s = <<>> THEN <<>>
  ELSE LET front == Dedupe(Front(s))
       IN IF Last(s) \in Range(front) THEN front ELSE Append(front, Last(s))

(***************************************************************************)
(* InMemoryEventStore.  `events` is a Map from aggregate id to an array of *)
(* events; a Map iterates in the order in which its keys were first set,   *)
(* so the store is a sequence of entries [aggregateId, stream].            *)
(***************************************************************************)
HasStream(es, aggregateId) == \E i \in 1..Len(es) : es[i].aggregateId = aggregateId

getEvents(es, aggregateId) ==
  IF HasStream(es, aggregateId)
  THEN (CHOOSE entry \in Range(es) : entry.aggregateId = aggregateId).stream
  ELSE <<>>

\* No comparison of versions: the new events are put behind whatever the
\* stream holds at the moment of the call.
saveEvents(es, aggregateId, newEvents) ==
  IF HasStream(es, aggregateId)
  THEN [i \in 1..Len(es) |->
          IF es[i].aggregateId = aggregateId
          THEN [es[i] EXCEPT !.stream = es[i].stream \o newEvents]
          ELSE es[i]]
  ELSE Append(es, [aggregateId |-> aggregateId, stream |-> newEvents])

\* Array.prototype.sort is stable: an event goes behind every event whose
\* occurredOn is not later than its own.
InsertByOccurredOn(sorted, e) ==
  LET k == Cardinality({i \in 1..Len(sorted) : sorted[i].occurredOn <= e.occurredOn})
  IN SubSeq(sorted, 1, k) \o <<e>> \o SubSeq(sorted, k + 1, Len(sorted))

RECURSIVE SortByOccurredOn(_)
SortByOccurredOn(s) ==
  IF s = <<>> THEN <<>> ELSE InsertByOccurredOn(SortByOccurredOn(Front(s)), Last(s))

getAllEvents(es) ==
  SortByOccurredOn(Flatten([i \in 1..Len(es) |-> es[i].stream]))

(***************************************************************************)
(* InMemoryReadModelRepository.  The read model is one record:             *)
(*   users                  userId -> username (NoName: no profile)        *)
(*   chirps                 Map chirpId -> chirp, in insertion order       *)
(*   following              followerId -> set of followeeIds               *)
(*   followRelationshipIds  "followerId:followeeId" -> relationshipId      *)
(*   materializedTimelines  userId -> chirp ids, front first               *)
(*   celebrityChirps        Map chirpId -> authorId, in insertion order    *)
(***************************************************************************)
EmptyReadModel ==
  [users |-> [u \in UserIds |-> NoName],
   chirps |-> <<>>,
   following |-> [u \in UserIds |-> {}],
   followRelationshipIds |-> [p \in UserIds \X UserIds |-> Nil],
   materializedTimelines |-> [u \in UserIds |-> <<>>],
   celebrityChirps |-> <<>>]

saveUserProfile(rm, userId, username) ==
  [rm EXCEPT !.users[userId] = username]

getUserProfile(rm, userId) ==
  IF userId \in UserIds THEN rm.users[userId] ELSE NoName

getUserProfileByUsername(rm, username) ==
  IF \E u \in UserIds : rm.users[u] = username
  THEN CHOOSE u \in UserIds : rm.users[u] = username
  ELSE Nil

getAllUsers(rm) == {u \in UserIds : rm.users[u] # NoName}

\* Map.set: a known key keeps its place, a new key goes to the end.
saveChirp(rm, chirp) ==
  IF \E i \in 1..Len(rm.chirps) : rm.chirps[i].chirpId = chirp.chirpId
  THEN [rm EXCEPT !.chirps =
          [i \in 1..Len(rm.chirps) |->
             IF rm.chirps[i].chirpId = chirp.chirpId THEN chirp ELSE rm.chirps[i]]]
  ELSE [rm EXCEPT !.chirps = Append(rm.chirps, chirp)]

HasChirp(rm, chirpId) == \E c \in Range(rm.chirps) : c.chirpId = chirpId

getChirp(rm, chirpId) == CHOOSE c \in Range(rm.chirps) : c.chirpId = chirpId

\* sort((a, b) => b.postedAt - a.postedAt), stable: a chirp goes behind
\* every chirp whose postedAt is not earlier than its own.
InsertByPostedAtDesc(sorted, c) ==
  LET k == Cardinality({i \in 1..Len(sorted) : sorted[i].postedAt >= c.postedAt})
  IN SubSeq(sorted, 1, k) \o <<c>> \o SubSeq(sorted, k + 1, Len(sorted))

RECURSIVE SortByPostedAtDesc(_)
SortByPostedAtDesc(s) ==
  IF s = <<>> THEN <<>> ELSE InsertByPostedAtDesc(SortByPostedAtDesc(Front(s)), Last(s))

RECURSIVE FilterByAuthor(_, _)
FilterByAuthor(cs, authorId) ==
  IF cs = <<>> THEN <<>>
  ELSE IF Head(cs).authorId = authorId
       THEN <<Head(cs)>> \o FilterByAuthor(Tail(cs), authorId)
       ELSE FilterByAuthor(Tail(cs), authorId)

getChirpsByAuthor(rm, authorId) ==
  SortByPostedAtDesc(FilterByAuthor(rm.chirps, authorId))

\* Mutant of addFollowing: the relationship id is not stored.
addFollowingWithoutId(rm, followerId, followeeId, relationshipId) ==
  [rm EXCEPT !.following[followerId] = @ \cup {followeeId}]

\* if (relationshipId): the id is stored when the caller gives one.
addFollowing(rm, followerId, followeeId, relationshipId) ==
  [rm EXCEPT !.following[followerId] = @ \cup {followeeId},
             !.followRelationshipIds[<<followerId, followeeId>>] =
                IF relationshipId # Nil THEN relationshipId ELSE @]

removeFollowing(rm, followerId, followeeId) ==
  [rm EXCEPT !.following[followerId] = @ \ {followeeId},
             !.followRelationshipIds[<<followerId, followeeId>>] = Nil]

getFollowing(rm, userId) == rm.following[userId]

getFollowers(rm, userId) == {f \in UserIds : userId \in rm.following[f]}

isFollowing(rm, followerId, followeeId) == followeeId \in rm.following[followerId]

getFollowRelationshipId(rm, followerId, followeeId) ==
  rm.followRelationshipIds[<<followerId, followeeId>>]

\* unshift, then slice(0, MAX_TIMELINE_SIZE) when the array is too long.
\* Mutant of addToTimeline: the timeline is not cut to MAX_TIMELINE_SIZE.
addToTimelineUncut(rm, userId, chirpId) ==
  [rm EXCEPT !.materializedTimelines[userId] = <<chirpId>> \o @]

addToTimeline(rm, userId, chirpId) ==
  LET timeline == <<chirpId>> \o rm.materializedTimelines[userId]
  IN [rm EXCEPT !.materializedTimelines[userId] =
        IF Len(timeline) > MAX_TIMELINE_SIZE
        THEN SubSeq(timeline, 1, MAX_TIMELINE_SIZE)
        ELSE timeline]

\* Drops the ids of the chirps the author has in the chirp store now.
removeAllChirpsFromTimeline(rm, userId, authorId) ==
  LET authorChirpIds == {c.chirpId : c \in Range(getChirpsByAuthor(rm, authorId))}
  IN [rm EXCEPT !.materializedTimelines[userId] = FilterOut(@, authorChirpIds)]

getMaterializedTimeline(rm, userId) == rm.materializedTimelines[userId]

addCelebrityChirp(rm, chirpId, authorId) ==
  IF \E i \in 1..Len(rm.celebrityChirps) : rm.celebrityChirps[i].chirpId = chirpId
  THEN [rm EXCEPT !.celebrityChirps =
          [i \in 1..Len(rm.celebrityChirps) |->
             IF rm.celebrityChirps[i].chirpId = chirpId
             THEN [chirpId |-> chirpId, authorId |-> authorId]
             ELSE rm.celebrityChirps[i]]]
  ELSE [rm EXCEPT !.celebrityChirps =
          Append(@, [chirpId |-> chirpId, authorId |-> authorId])]

RECURSIVE CelebrityIdsOf(_, _)
CelebrityIdsOf(cc, following) ==
  IF cc = <<>> THEN <<>>
  ELSE IF Head(cc).authorId \in following
       THEN <<Head(cc).chirpId>> \o CelebrityIdsOf(Tail(cc), following)
       ELSE CelebrityIdsOf(Tail(cc), following)

getCelebrityChirpsForUser(rm, following) == CelebrityIdsOf(rm.celebrityChirps, following)

\* Mutant of isCelebrity: the comparison includes the threshold.
isCelebrityFromThreshold(rm, userId) ==
  Cardinality(getFollowers(rm, userId)) >= CELEBRITY_THRESHOLD

isCelebrity(rm, userId) ==
  Cardinality(getFollowers(rm, userId)) > CELEBRITY_THRESHOLD

\* The chirps of the ids that resolve in the chirp store, in the order of ids.
RECURSIVE Resolve(_, _)
Resolve(rm, ids) ==
  IF ids = <<>> THEN <<>>
  ELSE IF HasChirp(rm, Head(ids))
       THEN <<getChirp(rm, Head(ids))>> \o Resolve(rm, Tail(ids))
       ELSE Resolve(rm, Tail(ids))

\* Mutant of getUserFeed: celebrity posts are pulled only from the followed
\* users who are celebrities now.
getUserFeedFromCelebritiesNow(rm, userId) ==
  LET timelineChirpIds == getMaterializedTimeline(rm, userId)
      celebrityChirpIds ==
        getCelebrityChirpsForUser(rm, {a \in getFollowing(rm, userId) : isCelebrity(rm, a)})
      allChirpIds == Dedupe(timelineChirpIds \o celebrityChirpIds)
  IN SortByPostedAtDesc(Resolve(rm, allChirpIds))

\* Mutant of getUserFeed: the ids of the two sources are not deduplicated.
getUserFeedAllIds(rm, userId) ==
  LET timelineChirpIds == getMaterializedTimeline(rm, userId)
      celebrityChirpIds == getCelebrityChirpsForUser(rm, getFollowing(rm, userId))
      allChirpIds == timelineChirpIds \o celebrityChirpIds
  IN SortByPostedAtDesc(Resolve(rm, allChirpIds))

getUserFeed(rm, userId) ==
  LET timelineChirpIds == getMaterializedTimeline(rm, userId)
      celebrityChirpIds == getCelebrityChirpsForUser(rm, getFollowing(rm, userId))
      allChirpIds == Dedupe(timelineChirpIds \o celebrityChirpIds)
  IN SortByPostedAtDesc(Resolve(rm, allChirpIds))

(***************************************************************************)
(* The three repository methods projectChirpDeleted calls.  The source     *)
(* tree holds their call sites only; they follow the read-store contract   *)
(* (deletePost, forgetCelebrityPost, "scan timelines for the id").         *)
(***************************************************************************)
RECURSIVE DropChirp(_, _)
DropChirp(cs, chirpId) ==
  IF cs = <<>> THEN <<>>
  ELSE IF Head(cs).chirpId = chirpId THEN DropChirp(Tail(cs), chirpId)
       ELSE <<Head(cs)>> \o DropChirp(Tail(cs), chirpId)

deleteChirp(rm, chirpId) == [rm EXCEPT !.chirps = DropChirp(@, chirpId)]

removeCelebrityChirp(rm, chirpId) ==
  [rm EXCEPT !.celebrityChirps = DropChirp(@, chirpId)]

removeChirpFromAllTimelines(rm, chirpId) ==
  [rm EXCEPT !.materializedTimelines =
     [u \in UserIds |-> FilterOut(rm.materializedTimelines[u], {chirpId})]]

(***************************************************************************)
(* EventProjector.  projectEvent dispatches on the class of the event.     *)
(* The projection of one event is one step of the model here: the awaits   *)
(* inside it are not interleaving points of this specification.            *)
(***************************************************************************)
projectUserRegistered(rm, event) ==
  saveUserProfile(rm, event.aggregateId, event.username)

\* for (const followerId of followers) addToTimeline(followerId, chirpId):
\* the followers are distinct, so each timeline gets the chirp id once.
FanOut(rm, followers, chirpId) ==
  [rm EXCEPT !.materializedTimelines =
     [u \in UserIds |->
        IF u \in followers
        THEN addToTimeline(rm, u, chirpId).materializedTimelines[u]
        ELSE rm.materializedTimelines[u]]]

\* Mutant of projectChirpPosted: the fan-out goes to the users the author
\* follows instead of the users who follow the author.
projectChirpPostedToFollowing(rm, event) ==
  LET saved == saveChirp(rm, [chirpId |-> event.aggregateId,
                              authorId |-> event.authorId,
                              authorUsername |-> getUserProfile(rm, event.authorId),
                              postedAt |-> event.postedAt])
  IN IF isCelebrity(saved, event.authorId)
     THEN addCelebrityChirp(saved, event.aggregateId, event.authorId)
     ELSE FanOut(saved, getFollowing(saved, event.authorId), event.aggregateId)

\* Mutant of projectChirpPosted: the fan-out is not in an else branch and runs
\* for a celebrity as well.
projectChirpPostedFanOutAlways(rm, event) ==
  LET saved == saveChirp(rm, [chirpId |-> event.aggregateId,
                              authorId |-> event.authorId,
                              authorUsername |-> getUserProfile(rm, event.authorId),
                              postedAt |-> event.postedAt])
      indexed == IF isCelebrity(saved, event.authorId)
                 THEN addCelebrityChirp(saved, event.aggregateId, event.authorId)
                 ELSE saved
  IN FanOut(indexed, getFollowers(saved, event.authorId), event.aggregateId)

projectChirpPosted(rm, event) ==
  LET saved == saveChirp(rm, [chirpId |-> event.aggregateId,
                              authorId |-> event.authorId,
                              authorUsername |-> getUserProfile(rm, event.authorId),
                              postedAt |-> event.postedAt])
  IN IF isCelebrity(saved, event.authorId)
     THEN addCelebrityChirp(saved, event.aggregateId, event.authorId)
     ELSE FanOut(saved, getFollowers(saved, event.authorId), event.aggregateId)

projectChirpDeleted(rm, event) ==
  LET chirp == getChirp(rm, event.aggregateId)
      cleaned == IF isCelebrity(rm, chirp.authorId)
                 THEN removeCelebrityChirp(rm, event.aggregateId)
                 ELSE removeChirpFromAllTimelines(rm, event.aggregateId)
  IN deleteChirp(cleaned, event.aggregateId)

\* for (const chirp of existingChirps) addToTimeline(followerId, chirp.chirpId)
RECURSIVE Backfill(_, _, _)
Backfill(rm, followerId, existingChirps) ==
  IF existingChirps = <<>> THEN rm
  ELSE Backfill(addToTimeline(rm, followerId, Head(existingChirps).chirpId),
                followerId, Tail(existingChirps))

\* for (const chirp of existingChirps) addCelebrityChirp(chirp.chirpId, followeeId)
RECURSIVE IndexCelebrityChirps(_, _, _)
IndexCelebrityChirps(rm, followeeId, existingChirps) ==
  IF existingChirps = <<>> THEN rm
  ELSE IndexCelebrityChirps(addCelebrityChirp(rm, Head(existingChirps).chirpId, followeeId),
                            followeeId, Tail(existingChirps))

\* Mutant of projectUserFollowed: only the newest post of the followee is
\* backfilled.
projectUserFollowedNewestOnly(rm, event) ==
  LET added == addFollowing(rm, event.followerId, event.followeeId, event.aggregateId)
      existingChirps == getChirpsByAuthor(added, event.followeeId)
  IN IF ~isCelebrity(added, event.followeeId)
     THEN Backfill(added, event.followerId,
                   IF existingChirps = <<>> THEN <<>> ELSE <<Head(existingChirps)>>)
     ELSE IndexCelebrityChirps(added, event.followeeId, existingChirps)

\* Mutant of projectUserFollowed: a follow of a celebrity indexes nothing.
projectUserFollowedNoIndex(rm, event) ==
  LET added == addFollowing(rm, event.followerId, event.followeeId, event.aggregateId)
      existingChirps == getChirpsByAuthor(added, event.followeeId)
  IN IF ~isCelebrity(added, event.followeeId)
     THEN Backfill(added, event.followerId, existingChirps)
     ELSE added

projectUserFollowed(rm, event) ==
  LET added == addFollowing(rm, event.followerId, event.followeeId, event.aggregateId)
      existingChirps == getChirpsByAuthor(added, event.followeeId)
  IN IF ~isCelebrity(added, event.followeeId)
     THEN Backfill(added, event.followerId, existingChirps)
     ELSE IndexCelebrityChirps(added, event.followeeId, existingChirps)

\* Mutant of projectUserUnfollowed: the cleanup takes the posts of the
\* followee out of every timeline, not only out of the follower's.
projectUserUnfollowedEveryTimeline(rm, event) ==
  LET removed == removeFollowing(rm, event.followerId, event.followeeId)
      authorChirpIds == {c.chirpId : c \in Range(getChirpsByAuthor(removed, event.followeeId))}
  IN IF ~isCelebrity(removed, event.followeeId)
     THEN [removed EXCEPT !.materializedTimelines =
             [u \in UserIds |-> FilterOut(removed.materializedTimelines[u], authorChirpIds)]]
     ELSE removed

projectUserUnfollowed(rm, event) ==
  LET removed == removeFollowing(rm, event.followerId, event.followeeId)
  IN IF ~isCelebrity(removed, event.followeeId)
     THEN removeAllChirpsFromTimeline(removed, event.followerId, event.followeeId)
     ELSE removed

\* The two `throw new Error(...)` of the projector; both come before the
\* first write of their projection.
ProjectionThrows(rm, event) ==
  \/ event.eventType = "ChirpPosted" /\ getUserProfile(rm, event.authorId) = NoName
  \/ event.eventType = "ChirpDeleted" /\ ~HasChirp(rm, event.aggregateId)

\* What `await this.readModelRepository.isCelebrity(...)` answers in the
\* projection of the event (projectUserRegistered does not ask).
celebrityAsked(rm, event) ==
  CASE event.eventType = "UserRegistered" -> FALSE
    [] event.eventType = "ChirpPosted" -> isCelebrity(rm, event.authorId)
    [] event.eventType = "ChirpDeleted" ->
         isCelebrity(rm, getChirp(rm, event.aggregateId).authorId)
    [] event.eventType = "UserFollowed" ->
         isCelebrity(addFollowing(rm, event.followerId, event.followeeId, event.aggregateId),
                     event.followeeId)
    [] event.eventType = "UserUnfollowed" ->
         isCelebrity(removeFollowing(rm, event.followerId, event.followeeId),
                     event.followeeId)

projectEvent(rm, event) ==
  CASE event.eventType = "UserRegistered" -> projectUserRegistered(rm, event)
    [] event.eventType = "ChirpPosted" -> projectChirpPosted(rm, event)
    [] event.eventType = "ChirpDeleted" -> projectChirpDeleted(rm, event)
    [] event.eventType = "UserFollowed" -> projectUserFollowed(rm, event)
    [] event.eventType = "UserUnfollowed" -> projectUserUnfollowed(rm, event)

\* The loop of rebuildProjections over getAllEvents(); a throw of
\* projectEvent leaves the loop.
RECURSIVE ReplayFrom(_, _)
ReplayFrom(rm, evs) ==
  IF evs = <<>> THEN rm
  ELSE IF ProjectionThrows(rm, Head(evs)) THEN rm
       ELSE ReplayFrom(projectEvent(rm, Head(evs)), Tail(evs))

rebuildProjections(rm, es) == ReplayFrom(rm, getAllEvents(es))

(***************************************************************************)
(* A projection as the awaits of the projector cut it: the part up to the  *)
(* first awaited write, and the rest.  The awaits of the rest (the answer  *)
(* of isCelebrity, the list read, the writes of the loop) are taken        *)
(* together.  Without another task in between, the two parts make          *)
(* projectEvent.                                                            *)
(***************************************************************************)
projectEventFirst(rm, event) ==
  CASE event.eventType = "UserRegistered" -> projectUserRegistered(rm, event)
    [] event.eventType = "ChirpPosted" ->
         saveChirp(rm, [chirpId |-> event.aggregateId,
                        authorId |-> event.authorId,
                        authorUsername |-> getUserProfile(rm, event.authorId),
                        postedAt |-> event.postedAt])
    [] event.eventType = "ChirpDeleted" ->
         IF isCelebrity(rm, getChirp(rm, event.aggregateId).authorId)
         THEN removeCelebrityChirp(rm, event.aggregateId)
         ELSE removeChirpFromAllTimelines(rm, event.aggregateId)
    [] event.eventType = "UserFollowed" ->
         addFollowing(rm, event.followerId, event.followeeId, event.aggregateId)
    [] event.eventType = "UserUnfollowed" ->
         removeFollowing(rm, event.followerId, event.followeeId)

projectEventRest(rm, event) ==
  CASE event.eventType = "UserRegistered" -> rm
    [] event.eventType = "ChirpPosted" ->
         IF isCelebrity(rm, event.authorId)
         THEN addCelebrityChirp(rm, event.aggregateId, event.authorId)
         ELSE FanOut(rm, getFollowers(rm, event.authorId), event.aggregateId)
    [] event.eventType = "ChirpDeleted" -> deleteChirp(rm, event.aggregateId)
    [] event.eventType = "UserFollowed" ->
         IF ~isCelebrity(rm, event.followeeId)
         THEN Backfill(rm, event.followerId, getChirpsByAuthor(rm, event.followeeId))
         ELSE IndexCelebrityChirps(rm, event.followeeId,
                                   getChirpsByAuthor(rm, event.followeeId))
    [] event.eventType = "UserUnfollowed" ->
         IF ~isCelebrity(rm, event.followeeId)
         THEN removeAllChirpsFromTimeline(rm, event.followerId, event.followeeId)
         ELSE rm

(***************************************************************************)
(* Aggregates.  fromEvents applies the loaded events in order: the version *)
(* is the version of the last event applied.                               *)
(***************************************************************************)
ChirpFromEvents(loaded) ==
  [id |-> loaded[1].aggregateId,
   authorId |-> loaded[1].authorId,
   isDeleted |-> \E i \in 1..Len(loaded) : loaded[i].eventType = "ChirpDeleted",
   version |-> Last(loaded).version]

FollowRelationshipFromEvents(loaded) ==
  LET lastChange == CHOOSE i \in 1..Len(loaded) :
                      /\ loaded[i].eventType \in {"UserFollowed", "UserUnfollowed"}
                      /\ \A j \in (i + 1)..Len(loaded) :
                           loaded[j].eventType \notin {"UserFollowed", "UserUnfollowed"}
  IN [id |-> loaded[1].aggregateId,
      followerId |-> loaded[1].followerId,
      followeeId |-> loaded[1].followeeId,
      isActive |-> loaded[lastChange].eventType = "UserFollowed",
      version |-> Last(loaded).version]

(***************************************************************************)
(* State.                                                                  *)
(*   events        the event store                                         *)
(*   readModel     the read-model repository                               *)
(*   now           the wall clock, in milliseconds                         *)
(*   session       per caller: where its command flow stands and what it   *)
(*                 holds in local variables; base and group are history:   *)
(*                 the read store before the projections that are in       *)
(*                 flight together with the caller's began, and their      *)
(*                 events in the order they began                          *)
(*   projectedLog  history: the events projectEvent has projected, in      *)
(*                 order, each with the answer isCelebrity gave it         *)
(*   completed     history: the ids of the events whose command flow       *)
(*                 (handle, then projectEventsAfterCommand) has returned   *)
(*                 to its caller without an error                          *)
(*   limit         the length of the run: the number of events, and of     *)
(*                 relationship streams, after which                       *)
(*                 the callers start no further command                    *)
(***************************************************************************)
VARIABLES events, readModel, now, session, projectedLog, completed, limit

vars == <<events, readModel, now, session, projectedLog, completed, limit>>

NoEvent == BaseDomainEvent(0, Nil, "none", 0, 0)

Command(name) ==
  [name |-> name, username |-> NoName, authorId |-> Nil, chirpId |-> Nil,
   userId |-> Nil, followerId |-> Nil, followeeId |-> Nil]

RegisterUserCommand(username) == [Command("RegisterUser") EXCEPT !.username = username]
PostChirpCommand(authorId) == [Command("PostChirp") EXCEPT !.authorId = authorId]
DeleteChirpCommand(chirpId, userId) ==
  [Command("DeleteChirp") EXCEPT !.chirpId = chirpId, !.userId = userId]
FollowUserCommand(followerId, followeeId) ==
  [Command("FollowUser") EXCEPT !.followerId = followerId, !.followeeId = followeeId]
UnfollowUserCommand(followerId, followeeId) ==
  [Command("UnfollowUser") EXCEPT !.followerId = followerId, !.followeeId = followeeId]

IdleSession ==
  [pc |-> "idle", command |-> Command("none"), relationshipId |-> Nil,
   loaded |-> <<>>, appended |-> 0, lastEvent |-> NoEvent, isCelebrity |-> FALSE,
   base |-> EmptyReadModel, group |-> <<>>]

Init ==
  /\ events = <<>>
  /\ readModel = EmptyReadModel
  /\ now = 0
  /\ session = [s \in Sessions |-> IdleSession]
  /\ projectedLog = <<>>
  /\ completed = {}
  /\ limit = [events |-> MaxEvents, rels |-> MaxRels]

AllStored == Flatten([i \in 1..Len(events) |-> events[i].stream])

StreamsOfKind(kind) == {i \in 1..Len(events) : events[i].aggregateId[1] = kind}

\* Flows that have passed their checks and will create an aggregate.
Pending(name) == {s \in Sessions : session[s].pc = "checked" /\ session[s].command.name = name}

NextEventId == Len(AllStored) + 1

\* Flows that have started and have not appended their event yet.
InFlight == {s \in Sessions : session[s].pc \in {"checked", "loaded"}}

\* The bound on the length of a run: no command starts once the events
\* stored and the events about to be stored reach the limit.
Room == Len(AllStored) + Cardinality(InFlight) < limit.events

\* new Date(): the clock has not moved since the last event or is one
\* millisecond later.
Ticks == {t \in {now, now + 1} : t <= MaxClock}

\* Mutant of Appended: the handler writes the event into the read store
\* itself when it saves it.
AppendedAndApplied(s, aggregateId, event) ==
  /\ events' = saveEvents(events, aggregateId, <<event>>)
  /\ now' = event.occurredOn
  /\ session' = [session EXCEPT ![s] = [IdleSession EXCEPT !.pc = "appended",
                                                         !.appended = event.eventId]]
  /\ readModel' = IF ProjectionThrows(readModel, event) THEN readModel
                  ELSE projectEvent(readModel, event)
  /\ UNCHANGED <<projectedLog, completed, limit>>

Appended(s, aggregateId, event) ==
  /\ events' = saveEvents(events, aggregateId, <<event>>)
  /\ now' = event.occurredOn
  /\ session' = [session EXCEPT ![s] = [IdleSession EXCEPT !.pc = "appended",
                                                         !.appended = event.eventId]]
  /\ UNCHANGED <<readModel, projectedLog, completed, limit>>

\* Mutant of Rejected: the failing handler has written to the event store
\* before it throws.
RejectedAfterWrite(s) ==
  /\ session' = [session EXCEPT ![s] = IdleSession]
  /\ events' = saveEvents(events, Nil, <<NoEvent>>)
  /\ UNCHANGED <<readModel, now, projectedLog, completed, limit>>

Rejected(s) ==
  /\ session' = [session EXCEPT ![s] = IdleSession]
  /\ UNCHANGED <<events, readModel, now, projectedLog, completed, limit>>

(***************************************************************************)
(* RegisterUserHandler.handle                                              *)
(***************************************************************************)
RegisterUserCheck(s, username) ==
  /\ session[s].pc = "idle"
  /\ Room
  /\ Cardinality(StreamsOfKind("user")) + Cardinality(Pending("RegisterUser")) < MaxRegistered
  /\ getUserProfileByUsername(readModel, username) = Nil
  /\ session' = [session EXCEPT ![s] = [IdleSession EXCEPT
                   !.pc = "checked", !.command = RegisterUserCommand(username)]]
  /\ UNCHANGED <<events, readModel, now, projectedLog, completed, limit>>

RegisterUserRejected(s) ==
  /\ session[s].pc = "idle"
  /\ {username \in Usernames : getUserProfileByUsername(readModel, username) # Nil} # {}
  /\ Rejected(s)

RegisterUserSave(s) ==
  /\ session[s].pc = "checked"
  /\ session[s].command.name = "RegisterUser"
  /\ \E t \in Ticks :
       LET userId == <<"user", Cardinality(StreamsOfKind("user")) + 1>>
       IN Appended(s, userId,
                   UserRegistered(NextEventId, userId, session[s].command.username, 1, t))

(***************************************************************************)
(* PostChirpHandler.handle                                                 *)
(***************************************************************************)
\* Mutant of PostChirpCheck: the author is not looked up in the read store.
PostChirpCheckAnyAuthor(s, authorId) ==
  /\ session[s].pc = "idle"
  /\ Room
  /\ Cardinality(StreamsOfKind("chirp")) + Cardinality(Pending("PostChirp")) < MaxChirps
  /\ session' = [session EXCEPT ![s] = [IdleSession EXCEPT
                   !.pc = "checked", !.command = PostChirpCommand(authorId)]]
  /\ UNCHANGED <<events, readModel, now, projectedLog, completed, limit>>

PostChirpCheck(s, authorId) ==
  /\ session[s].pc = "idle"
  /\ Room
  /\ Cardinality(StreamsOfKind("chirp")) + Cardinality(Pending("PostChirp")) < MaxChirps
  /\ getUserProfile(readModel, authorId) # NoName
  /\ session' = [session EXCEPT ![s] = [IdleSession EXCEPT
                   !.pc = "checked", !.command = PostChirpCommand(authorId)]]
  /\ UNCHANGED <<events, readModel, now, projectedLog, completed, limit>>

PostChirpRejected(s) ==
  /\ session[s].pc = "idle"
  /\ {authorId \in UserIds : getUserProfile(readModel, authorId) = NoName} # {}
  /\ Rejected(s)

PostChirpSave(s) ==
  /\ session[s].pc = "checked"
  /\ session[s].command.name = "PostChirp"
  /\ \E t \in Ticks :
       LET chirpId == <<"chirp", Cardinality(StreamsOfKind("chirp")) + 1>>
       IN Appended(s, chirpId,
                   ChirpPosted(NextEventId, chirpId, session[s].command.authorId, 1, t))

(***************************************************************************)
(* DeleteChirpHandler.handle                                               *)
(***************************************************************************)
\* Mutant of DeleteChirpLoad: the caller is not compared with the author.
DeleteChirpLoadAnyCaller(s, chirpId, userId) ==
  /\ session[s].pc = "idle"
  /\ Room
  /\ getEvents(events, chirpId) # <<>>
  /\ ~ChirpFromEvents(getEvents(events, chirpId)).isDeleted
  /\ session' = [session EXCEPT ![s] = [IdleSession EXCEPT
                   !.pc = "loaded", !.command = DeleteChirpCommand(chirpId, userId),
                   !.loaded = getEvents(events, chirpId)]]
  /\ UNCHANGED <<events, readModel, now, projectedLog, completed, limit>>

DeleteChirpLoad(s, chirpId, userId) ==
  /\ session[s].pc = "idle"
  /\ Room
  /\ getEvents(events, chirpId) # <<>>
  /\ LET chirp == ChirpFromEvents(getEvents(events, chirpId))
     IN chirp.authorId = userId /\ ~chirp.isDeleted
  /\ session' = [session EXCEPT ![s] = [IdleSession EXCEPT
                   !.pc = "loaded", !.command = DeleteChirpCommand(chirpId, userId),
                   !.loaded = getEvents(events, chirpId)]]
  /\ UNCHANGED <<events, readModel, now, projectedLog, completed, limit>>

DeleteChirpNotFound(s) ==
  /\ session[s].pc = "idle"
  /\ {chirpId \in ChirpIds : getEvents(events, chirpId) = <<>>} # {}
  /\ Rejected(s)

\* Unauthorized, or Chirp.delete() on a chirp that is already deleted: both
\* are decided by the events loaded, so the flow ends where it loaded them.
DeleteChirpRejected(s) ==
  /\ session[s].pc = "idle"
  /\ {c \in ChirpIds \X UserIds :
        /\ getEvents(events, c[1]) # <<>>
        /\ LET chirp == ChirpFromEvents(getEvents(events, c[1]))
           IN chirp.authorId # c[2] \/ chirp.isDeleted} # {}
  /\ Rejected(s)

\* chirp.delete() raises the version the flow loaded by one; saveEvents is
\* given that event whatever the stream holds by now.
DeleteChirpSave(s) ==
  /\ session[s].pc = "loaded"
  /\ session[s].command.name = "DeleteChirp"
  /\ LET chirp == ChirpFromEvents(session[s].loaded)
     IN \E t \in Ticks :
          Appended(s, session[s].command.chirpId,
                   ChirpDeleted(NextEventId, chirp.id, chirp.version + 1, t))

(***************************************************************************)
(* FollowUserHandler.handle                                                *)
(***************************************************************************)
\* Mutant of FollowUserCheck: FollowRelationship.create does not compare the
\* follower with the followee.
FollowUserCheckSelfAllowed(s, followerId, followeeId) ==
  /\ session[s].pc = "idle"
  /\ Room
  /\ Cardinality(StreamsOfKind("rel")) + Cardinality(Pending("FollowUser")) < limit.rels
  /\ getUserProfile(readModel, followerId) # NoName
  /\ getUserProfile(readModel, followeeId) # NoName
  /\ ~isFollowing(readModel, followerId, followeeId)
  /\ session' = [session EXCEPT ![s] = [IdleSession EXCEPT
                   !.pc = "checked", !.command = FollowUserCommand(followerId, followeeId)]]
  /\ UNCHANGED <<events, readModel, now, projectedLog, completed, limit>>

FollowUserCheck(s, followerId, followeeId) ==
  /\ session[s].pc = "idle"
  /\ Room
  /\ Cardinality(StreamsOfKind("rel")) + Cardinality(Pending("FollowUser")) < limit.rels
  /\ getUserProfile(readModel, followerId) # NoName
  /\ getUserProfile(readModel, followeeId) # NoName
  /\ ~isFollowing(readModel, followerId, followeeId)
  /\ followerId # followeeId
  /\ session' = [session EXCEPT ![s] = [IdleSession EXCEPT
                   !.pc = "checked", !.command = FollowUserCommand(followerId, followeeId)]]
  /\ UNCHANGED <<events, readModel, now, projectedLog, completed, limit>>

\* UserNotFoundError, AlreadyFollowingError, or CannotFollowSelfError thrown
\* by FollowRelationship.create.
FollowUserRejected(s) ==
  /\ session[s].pc = "idle"
  /\ {f \in UserIds \X UserIds :
        \/ getUserProfile(readModel, f[1]) = NoName
        \/ getUserProfile(readModel, f[2]) = NoName
        \/ isFollowing(readModel, f[1], f[2])
        \/ f[1] = f[2]} # {}
  /\ Rejected(s)

FollowUserSave(s) ==
  /\ session[s].pc = "checked"
  /\ session[s].command.name = "FollowUser"
  /\ \E t \in Ticks :
       LET relationshipId == <<"rel", Cardinality(StreamsOfKind("rel")) + 1>>
       IN Appended(s, relationshipId,
                   UserFollowed(NextEventId, relationshipId, session[s].command.followerId,
                                session[s].command.followeeId, 1, t))

(***************************************************************************)
(* UnfollowUserHandler.handle                                              *)
(***************************************************************************)
UnfollowUserCheck(s, followerId, followeeId) ==
  /\ session[s].pc = "idle"
  /\ Room
  /\ getUserProfile(readModel, followerId) # NoName
  /\ getUserProfile(readModel, followeeId) # NoName
  /\ isFollowing(readModel, followerId, followeeId)
  /\ getFollowRelationshipId(readModel, followerId, followeeId) # Nil
  /\ session' = [session EXCEPT ![s] = [IdleSession EXCEPT
                   !.pc = "checked", !.command = UnfollowUserCommand(followerId, followeeId),
                   !.relationshipId = getFollowRelationshipId(readModel, followerId, followeeId)]]
  /\ UNCHANGED <<events, readModel, now, projectedLog, completed, limit>>

UnfollowUserRejected(s) ==
  /\ session[s].pc = "idle"
  /\ {f \in UserIds \X UserIds :
        \/ getUserProfile(readModel, f[1]) = NoName
        \/ getUserProfile(readModel, f[2]) = NoName
        \/ ~isFollowing(readModel, f[1], f[2])
        \/ getFollowRelationshipId(readModel, f[1], f[2]) = Nil} # {}
  /\ Rejected(s)

UnfollowUserLoad(s) ==
  /\ session[s].pc = "checked"
  /\ session[s].command.name = "UnfollowUser"
  /\ FollowRelationshipFromEvents(getEvents(events, session[s].relationshipId)).isActive
  /\ session' = [session EXCEPT ![s].pc = "loaded",
                                ![s].loaded = getEvents(events, session[s].relationshipId)]
  /\ UNCHANGED <<events, readModel, now, projectedLog, completed, limit>>

\* FollowRelationship.unfollow() on a relationship that is not active: decided
\* by the events loaded, so the flow ends where it loaded them.
UnfollowUserNotActive(s) ==
  /\ session[s].pc = "checked"
  /\ session[s].command.name = "UnfollowUser"
  /\ ~FollowRelationshipFromEvents(getEvents(events, session[s].relationshipId)).isActive
  /\ Rejected(s)

UnfollowUserSave(s) ==
  /\ session[s].pc = "loaded"
  /\ session[s].command.name = "UnfollowUser"
  /\ LET relationship == FollowRelationshipFromEvents(session[s].loaded)
     IN \E t \in Ticks :
          Appended(s, relationship.id,
                   UserUnfollowed(NextEventId, relationship.id, relationship.followerId,
                                  relationship.followeeId, relationship.version + 1, t))

(***************************************************************************)
(* Container.projectEventsAfterCommand, called by every caller right after *)
(* handle() has returned.                                                  *)
(***************************************************************************)
ProjectEventsAfterCommandPick(s) ==
  /\ session[s].pc = "appended"
  /\ session' = [session EXCEPT ![s].pc = "picked",
                                ![s].lastEvent = Last(getAllEvents(events))]
  /\ UNCHANGED <<events, readModel, now, projectedLog, completed, limit>>

ProjectEventsAfterCommandProject(s) ==
  /\ session[s].pc = "picked"
  /\ ~ProjectionThrows(readModel, session[s].lastEvent)
  /\ readModel' = projectEvent(readModel, session[s].lastEvent)
  /\ projectedLog' = Append(projectedLog,
                            [eventId |-> session[s].lastEvent.eventId,
                             celebrity |-> celebrityAsked(readModel, session[s].lastEvent)])
  /\ completed' = completed \cup {session[s].appended}
  /\ session' = [session EXCEPT ![s] = IdleSession]
  /\ UNCHANGED <<events, now, limit>>

ProjectEventsAfterCommandThrows(s) ==
  /\ session[s].pc = "picked"
  /\ ProjectionThrows(readModel, session[s].lastEvent)
  /\ Rejected(s)

\* The usernames a caller registers with: one that is taken or asked for
\* already, or the first one that is not (which of the free names it is makes
\* no difference to the program).
Asked ==
  {e.username : e \in {AllStored[i] : i \in 1..Len(AllStored)}}
    \cup {session[s].command.username : s \in Sessions}
Offered ==
  {UsernameOf[i] : i \in {j \in 1..MaxRegistered :
                            \A k \in 1..(j - 1) : UsernameOf[k] \in Asked}}

\* Who does what: the first user to register posts, any of the first
\* MaxUsers users asks to delete, and any of them, the author included, asks
\* to follow and unfollow the author.  The failures below take any user.
Authors == {<<"user", 1>>}
Callers == {<<"user", i>> : i \in 1..MaxUsers}
Follows == {<<followerId, followeeId>> : followerId \in Callers, followeeId \in Authors}

\* Every failure of a command that has appended nothing; the failures of a
\* command that has not passed its first await take their inputs themselves.
Fail(s) ==
  \/ RegisterUserRejected(s)
  \/ PostChirpRejected(s)
  \/ DeleteChirpNotFound(s)
  \/ DeleteChirpRejected(s)
  \/ FollowUserRejected(s)
  \/ UnfollowUserRejected(s)
  \/ UnfollowUserNotActive(s)

\* Container.projectEventsAfterCommand, step by step.
Project(s) ==
  \/ ProjectEventsAfterCommandPick(s)
  \/ ProjectEventsAfterCommandProject(s)
  \/ ProjectEventsAfterCommandThrows(s)

Next ==
  \E s \in Sessions :
    \/ \E username \in Offered : RegisterUserCheck(s, username)
    \/ RegisterUserSave(s)
    \/ \E authorId \in Authors : PostChirpCheck(s, authorId)
    \/ PostChirpSave(s)
    \/ \E chirpId \in ChirpIds, userId \in Callers : DeleteChirpLoad(s, chirpId, userId)
    \/ DeleteChirpSave(s)
    \/ \E f \in Follows : FollowUserCheck(s, f[1], f[2])
    \/ FollowUserSave(s)
    \/ \E f \in Follows : UnfollowUserCheck(s, f[1], f[2])
    \/ UnfollowUserLoad(s)
    \/ UnfollowUserSave(s)
    \/ Fail(s)
    \/ Project(s)

\* The program from its construction: callers register, post, delete, follow
\* and unfollow concurrently.
Spec == Init /\ [][Next]_vars

(***************************************************************************)
(* The program once MaxUsers users have registered, one after the other    *)
(* within one millisecond, each registration projected: the state the      *)
(* hydration loop of the admin panel leaves.  From there the callers post, *)
(* delete, follow and unfollow concurrently.                               *)
(***************************************************************************)
Registered ==
  [i \in 1..MaxUsers |->
     [aggregateId |-> <<"user", i>>,
      stream |-> <<UserRegistered(i, <<"user", i>>, UsernameOf[i], 1, 0)>>]]

InitSocial ==
  /\ events = Registered
  /\ readModel = rebuildProjections(EmptyReadModel, Registered)
  /\ now = 0
  /\ session = [s \in Sessions |-> IdleSession]
  /\ projectedLog = [i \in 1..MaxUsers |-> [eventId |-> i, celebrity |-> FALSE]]
  /\ completed = 1..MaxUsers
  /\ limit = [events |-> MaxUsers + MaxSocialEvents, rels |-> MaxRels]

FailSocial(s) ==
  \/ DeleteChirpNotFound(s)
  \/ DeleteChirpRejected(s)
  \/ FollowUserRejected(s)
  \/ UnfollowUserRejected(s)
  \/ UnfollowUserNotActive(s)

NextSocial ==
  \E s \in Sessions :
    \/ \E authorId \in Authors : PostChirpCheck(s, authorId)
    \/ PostChirpSave(s)
    \/ \E chirpId \in ChirpIds, userId \in Callers : DeleteChirpLoad(s, chirpId, userId)
    \/ DeleteChirpSave(s)
    \/ \E f \in Follows : FollowUserCheck(s, f[1], f[2])
    \/ FollowUserSave(s)
    \/ \E f \in Follows : UnfollowUserCheck(s, f[1], f[2])
    \/ UnfollowUserLoad(s)
    \/ UnfollowUserSave(s)
    \/ FailSocial(s)
    \/ Project(s)

SpecSocial == InitSocial /\ [][NextSocial]_vars

(***************************************************************************)
(* A third starting point: the users are registered and the author          *)
(* already has exactly CELEBRITY_THRESHOLD followers, every follow           *)
(* projected, as after the hydration loops of the admin panel.  One more    *)
(* follow makes the author a celebrity, so the celebrity paths of the       *)
(* projector and of the feed are reached within MaxFollowedEvents events.   *)
(***************************************************************************)
Followed ==
  Registered \o
  [i \in 1..CELEBRITY_THRESHOLD |->
     [aggregateId |-> <<"rel", i>>,
      stream |-> <<UserFollowed(MaxUsers + i, <<"rel", i>>,
                                <<"user", i + 1>>, <<"user", 1>>, 1, 0)>>]]

InitFollowed ==
  /\ events = Followed
  /\ readModel = rebuildProjections(EmptyReadModel, Followed)
  /\ now = 0
  /\ session = [s \in Sessions |-> IdleSession]
  /\ projectedLog = [i \in 1..(MaxUsers + CELEBRITY_THRESHOLD) |->
                       [eventId |-> i, celebrity |-> FALSE]]
  /\ completed = 1..(MaxUsers + CELEBRITY_THRESHOLD)
  /\ limit = [events |-> MaxUsers + CELEBRITY_THRESHOLD + MaxFollowedEvents,
              rels |-> MaxRels]

SpecFollowed == InitFollowed /\ [][NextSocial]_vars

(***************************************************************************)
(* The same callers with the projection taken await by await: another      *)
(* caller, or a query, runs between the first write of a projection and    *)
(* the rest of it.                                                          *)
(***************************************************************************)
ProjectEventFirst(s) ==
  /\ session[s].pc = "picked"
  /\ ~ProjectionThrows(readModel, session[s].lastEvent)
  /\ readModel' = projectEventFirst(readModel, session[s].lastEvent)
  /\ LET inFlight == {t \in Sessions \ {s} : session[t].pc = "projecting"}
         first == CHOOSE t \in inFlight : TRUE
     IN session' =
          [t \in Sessions |->
             IF t = s
             THEN [session[s] EXCEPT
                     !.pc = "projecting",
                     !.isCelebrity =
                        IF session[s].lastEvent.eventType = "ChirpDeleted"
                        THEN celebrityAsked(readModel, session[s].lastEvent)
                        ELSE FALSE,
                     !.base = IF inFlight = {} THEN readModel ELSE session[first].base,
                     !.group = IF inFlight = {} THEN <<session[s].lastEvent>>
                               ELSE Append(session[first].group, session[s].lastEvent)]
             ELSE IF t \in inFlight
                  THEN [session[t] EXCEPT !.group = Append(@, session[s].lastEvent)]
                  ELSE session[t]]
  /\ UNCHANGED <<events, now, projectedLog, completed, limit>>

ProjectEventRest(s) ==
  /\ session[s].pc = "projecting"
  /\ readModel' = projectEventRest(readModel, session[s].lastEvent)
  /\ projectedLog' =
       Append(projectedLog,
              [eventId |-> session[s].lastEvent.eventId,
               celebrity |->
                 CASE session[s].lastEvent.eventType = "ChirpDeleted" -> session[s].isCelebrity
                   [] session[s].lastEvent.eventType = "ChirpPosted" ->
                        isCelebrity(readModel, session[s].lastEvent.authorId)
                   [] session[s].lastEvent.eventType \in {"UserFollowed", "UserUnfollowed"} ->
                        isCelebrity(readModel, session[s].lastEvent.followeeId)
                   [] OTHER -> FALSE])
  /\ completed' = completed \cup {session[s].appended}
  /\ session' = [session EXCEPT ![s] = IdleSession]
  /\ UNCHANGED <<events, now, limit>>

InitAwait ==
  /\ events = Followed
  /\ readModel = rebuildProjections(EmptyReadModel, Followed)
  /\ now = 0
  /\ session = [s \in Sessions |-> IdleSession]
  /\ projectedLog = [i \in 1..(MaxUsers + CELEBRITY_THRESHOLD) |->
                       [eventId |-> i, celebrity |-> FALSE]]
  /\ completed = 1..(MaxUsers + CELEBRITY_THRESHOLD)
  /\ limit = [events |-> MaxUsers + CELEBRITY_THRESHOLD + MaxAwaitEvents,
              rels |-> MaxRels]

NextAwait ==
  \E s \in Sessions :
    \/ \E authorId \in Authors : PostChirpCheck(s, authorId)
    \/ PostChirpSave(s)
    \/ \E chirpId \in ChirpIds, userId \in Callers : DeleteChirpLoad(s, chirpId, userId)
    \/ DeleteChirpSave(s)
    \/ \E f \in Follows : FollowUserCheck(s, f[1], f[2])
    \/ FollowUserSave(s)
    \/ \E f \in Follows : UnfollowUserCheck(s, f[1], f[2])
    \/ UnfollowUserLoad(s)
    \/ UnfollowUserSave(s)
    \/ FailSocial(s)
    \/ ProjectEventsAfterCommandPick(s)
    \/ ProjectEventFirst(s)
    \/ ProjectEventRest(s)
    \/ ProjectEventsAfterCommandThrows(s)

SpecAwait == InitAwait /\ [][NextAwait]_vars

(***************************************************************************)
(* A fourth starting point: the state one caller leaves whose commands     *)
(* come more than a millisecond apart, each projected before the next (the *)
(* clock of the model starts after the last of them).  MaxAccounts users   *)
(* register; user 2 follows the author; the author posts; users 3, 4 and 5 *)
(* follow, which makes the author a celebrity; user 2 unfollows while the  *)
(* author still is one; users 4 and 5 unfollow.  The author is left with   *)
(* one follower.                                                           *)
(***************************************************************************)
DepartedLog ==
  [i \in 1..MaxAccounts |-> UserRegistered(i, <<"user", i>>, UsernameOf[i], 1, 0)] \o
  << UserFollowed(MaxAccounts + 1, <<"rel", 1>>, <<"user", 2>>, <<"user", 1>>, 1, 0),
     ChirpPosted(MaxAccounts + 2, <<"chirp", 1>>, <<"user", 1>>, 1, 0),
     UserFollowed(MaxAccounts + 3, <<"rel", 2>>, <<"user", 3>>, <<"user", 1>>, 1, 0),
     UserFollowed(MaxAccounts + 4, <<"rel", 3>>, <<"user", 4>>, <<"user", 1>>, 1, 0),
     UserFollowed(MaxAccounts + 5, <<"rel", 4>>, <<"user", 5>>, <<"user", 1>>, 1, 0),
     UserUnfollowed(MaxAccounts + 6, <<"rel", 1>>, <<"user", 2>>, <<"user", 1>>, 2, 0),
     UserUnfollowed(MaxAccounts + 7, <<"rel", 3>>, <<"user", 4>>, <<"user", 1>>, 2, 0),
     UserUnfollowed(MaxAccounts + 8, <<"rel", 4>>, <<"user", 5>>, <<"user", 1>>, 2, 0) >>

\* The event store after saveEvents of each event of the log, in order.
RECURSIVE SavedInOrder(_, _)
SavedInOrder(es, evs) ==
  IF evs = <<>> THEN es
  ELSE SavedInOrder(saveEvents(es, Head(evs).aggregateId, <<Head(evs)>>), Tail(evs))

\* The read store after projectEvent of each event of the log, in order.
RECURSIVE ProjectedInOrder(_, _)
ProjectedInOrder(rm, evs) ==
  IF evs = <<>> THEN rm
  ELSE ProjectedInOrder(projectEvent(rm, Head(evs)), Tail(evs))

\* What those projections leave in projectedLog.
RECURSIVE AskedInOrder(_, _)
AskedInOrder(rm, evs) ==
  IF evs = <<>> THEN <<>>
  ELSE <<[eventId |-> Head(evs).eventId, celebrity |-> celebrityAsked(rm, Head(evs))]>>
         \o AskedInOrder(projectEvent(rm, Head(evs)), Tail(evs))

InitDeparted ==
  /\ events = SavedInOrder(<<>>, DepartedLog)
  /\ readModel = ProjectedInOrder(EmptyReadModel, DepartedLog)
  /\ now = 0
  /\ session = [s \in Sessions |-> IdleSession]
  /\ projectedLog = AskedInOrder(EmptyReadModel, DepartedLog)
  /\ completed = 1..Len(DepartedLog)
  /\ limit = [events |-> Len(DepartedLog) + MaxDepartedEvents,
              rels |-> MaxAccounts - 1 + MaxDepartedRels]

SpecDeparted == InitDeparted /\ [][NextSocial]_vars

(***************************************************************************)
(* Properties.                                                             *)
(***************************************************************************)
Stored == Range(AllStored)

Projected == {projectedLog[i].eventId : i \in 1..Len(projectedLog)}

Quiescent == \A s \in Sessions : session[s].pc = "idle"

\* C1: in every reachable state the versions of the events stored for an
\* aggregate are exactly 1, 2, ..., n in stream order, whatever the
\* interleaving of the command handlers.
C1_DenseVersions ==
  \A i \in 1..Len(events) :
    \A k \in 1..Len(events[i].stream) : events[i].stream[k].version = k

\* C2: usernames are globally unique in every reachable state: no two
\* UserRegistered events of the log and no two profiles of the read store
\* carry the same username.
C2_UsernamesUnique ==
  /\ \A e1, e2 \in Stored :
       /\ e1.eventType = "UserRegistered"
       /\ e2.eventType = "UserRegistered"
       /\ e1.username = e2.username
       => e1 = e2
  /\ \A u1, u2 \in getAllUsers(readModel) :
       getUserProfile(readModel, u1) = getUserProfile(readModel, u2) => u1 = u2

\* The relationship streams that are active: UserFollowed and no
\* UserUnfollowed behind it.
ActiveRelationships ==
  {i \in StreamsOfKind("rel") : FollowRelationshipFromEvents(events[i].stream).isActive}

\* C3: in every reachable state there is at most one active
\* FollowRelationship aggregate per ordered (follower, followee) pair.
C3_OneActiveRelationship ==
  \A i, j \in ActiveRelationships :
    /\ events[i].stream[1].followerId = events[j].stream[1].followerId
    /\ events[i].stream[1].followeeId = events[j].stream[1].followeeId
    => i = j

\* C4: read-your-writes: a command flow never returns to its caller with
\* success while the event it appended has not been projected.
C4_ReadYourWrites == completed \subseteq Projected

\* The two read stores hold the same profiles, posts, follow graph,
\* relationship index, timelines and celebrity index; the two Maps that the
\* program only looks up by key are compared as sets.
SameReadModel(a, b) ==
  /\ a.users = b.users
  /\ Range(a.chirps) = Range(b.chirps)
  /\ a.following = b.following
  /\ a.followRelationshipIds = b.followRelationshipIds
  /\ a.materializedTimelines = b.materializedTimelines
  /\ Range(a.celebrityChirps) = Range(b.celebrityChirps)

\* C5: replay law: when every command has been followed by its projection,
\* getAllEvents() fed in its order through the projector into an empty read
\* store gives the read store the program holds.
C5_ReplayLaw ==
  Quiescent => SameReadModel(rebuildProjections(EmptyReadModel, events), readModel)

FeedIds(u) == {c.chirpId : c \in Range(getUserFeed(readModel, u))}

FeedAuthors(u) == {c.authorId : c \in Range(getUserFeed(readModel, u))}

\* C6: once the ChirpDeleted of a post has been projected, GetUserFeed
\* returns the post for no user, in every later state.
C6_DeletedNeverInFeed ==
  \A e \in Stored :
    e.eventType = "ChirpDeleted" /\ e.eventId \in Projected
    => \A u \in UserIds : e.aggregateId \notin FeedIds(u)

\* f has followed e again after the event: a later UserFollowed from f to e
\* is in the log.
FollowedAgain(unfollowed) ==
  \E e \in Stored :
    /\ e.eventType = "UserFollowed"
    /\ e.followerId = unfollowed.followerId
    /\ e.followeeId = unfollowed.followeeId
    /\ e.eventId > unfollowed.eventId

\* C7: once a UserUnfollowed from f to e has been projected, with e not a
\* celebrity at that projection, GetUserFeed(f) returns no post of e until f
\* follows e again.
C7_UnfollowedNeverInFeed ==
  \A e \in Stored :
    /\ e.eventType = "UserUnfollowed"
    /\ \E i \in 1..Len(projectedLog) :
         projectedLog[i].eventId = e.eventId /\ ~projectedLog[i].celebrity
    /\ ~FollowedAgain(e)
    => e.followeeId \notin FeedAuthors(e.followerId)

\* The users who follow u in the read store, read off the follow graph.
FollowersOf(u) == {f \in UserIds : u \in readModel.following[f]}

\* The step of session s is the projection of a ChirpPosted event.
ProjectsChirpPosted(s) ==
  /\ session[s].lastEvent.eventType = "ChirpPosted"
  /\ ProjectEventsAfterCommandProject(s)

JustPosted(chirp) ==
  /\ projectedLog # <<>>
  /\ \E e \in Stored :
       /\ e.eventType = "ChirpPosted"
       /\ e.aggregateId = chirp.chirpId
       /\ Last(projectedLog).eventId = e.eventId
       /\ \A i \in 1..(Len(projectedLog) - 1) : projectedLog[i].eventId # e.eventId

NoFanOutFrom(enough) ==
  \A s \in Sessions :
    /\ ProjectsChirpPosted(s)
    /\ Cardinality(FollowersOf(session[s].lastEvent.authorId)) >= enough
    => /\ readModel'.materializedTimelines = readModel.materializedTimelines
       /\ \E c \in Range(readModel'.celebrityChirps) :
            /\ c.chirpId = session[s].lastEvent.aggregateId
            /\ c.authorId = session[s].lastEvent.authorId

PublishedAsCelebrity ==
  {e \in Stored :
     /\ e.eventType = "ChirpPosted"
     /\ \E i \in 1..Len(projectedLog) :
          projectedLog[i].eventId = e.eventId /\ projectedLog[i].celebrity}

\* A ChirpDeleted of the chirp has been projected.
DeletionProjected(chirpId) ==
  \E e \in Stored :
    /\ e.eventType = "ChirpDeleted"
    /\ e.aggregateId = chirpId
    /\ e.eventId \in Projected

\* C11: celebrity posts are pulled at read time: a post published while its
\* author was a celebrity is, for as long as it is not deleted, returned by
\* GetUserFeed(f) for every user f who follows the author now, through the
\* celebrity index and whatever the materialized timelines hold.
C11_CelebrityPulled ==
  \A e \in PublishedAsCelebrity :
    ~DeletionProjected(e.aggregateId)
    => \A f \in FollowersOf(e.authorId) :
         /\ e.aggregateId
              \in Range(getCelebrityChirpsForUser(readModel, getFollowing(readModel, f)))
         /\ e.aggregateId \in FeedIds(f)

\* A post published by a celebrity is in no materialized timeline; since
\* then a follower has left, the author is no celebrity any more, and a
\* remaining follower still gets the post in the feed.
C11_Witness ==
  \E e \in PublishedAsCelebrity :
    /\ ~DeletionProjected(e.aggregateId)
    /\ ~isCelebrity(readModel, e.authorId)
    /\ \A u \in UserIds : e.aggregateId \notin Range(readModel.materializedTimelines[u])
    /\ \E f \in FollowersOf(e.authorId) : e.aggregateId \in FeedIds(f)

\* The step of session s is the projection of a UserFollowed event.
ProjectsUserFollowed(s) ==
  /\ session[s].lastEvent.eventType = "UserFollowed"
  /\ ProjectEventsAfterCommandProject(s)

\* The ids of the posts of the author that the post store of rm holds.
PostIdsOf(rm, authorId) == {c.chirpId : c \in {d \in Range(rm.chirps) : d.authorId = authorId}}

Min(a, b) == IF a < b THEN a ELSE b

\* The sequence of posts runs from the newest to the oldest.
NewestFirst(feed) ==
  \A i, j \in 1..Len(feed) : i < j => feed[i].postedAt >= feed[j].postedAt

NoProjectionInProgress == \A s \in Sessions : session[s].pc # "picked"

\* C13: whenever no projection is in progress, every post id held in a
\* materialized timeline resolves to a post of the post store, whatever the
\* celebrity status of the author was when the post was published and when
\* it was deleted.
C13_TimelinesResolve ==
  NoProjectionInProgress
  => \A u \in UserIds :
       \A chirpId \in Range(readModel.materializedTimelines[u]) :
         HasChirp(readModel, chirpId)

Reverse(s) == [i \in 1..Len(s) |-> s[Len(s) + 1 - i]]

\* A read store with the same posts, timelines and celebrity index as rm,
\* whose two Maps of posts were filled in the opposite order.
Reinserted(rm) ==
  [rm EXCEPT !.chirps = Reverse(@), !.celebrityChirps = Reverse(@)]

\* C14: GetUserFeed(u) is a total, deterministic order (postedAt descending,
\* ties broken by post id): two read stores holding the same posts,
\* timelines and celebrity index return the same sequence even if their
\* entries were inserted in different orders.
C14_FeedOrderTotal ==
  \A u \in UserIds :
    getUserFeed(readModel, u) = getUserFeed(Reinserted(readModel), u)

\* The ids GetUserFeed(u) reads: the materialized timeline of u, then the
\* celebrity posts of the users u follows.
FeedSourceIds(u) ==
  getMaterializedTimeline(readModel, u)
    \o getCelebrityChirpsForUser(readModel, getFollowing(readModel, u))

\* C15: GetUserFeed(u) returns exactly the posts whose ids are in the
\* timeline of u or among the celebrity posts of the users u follows and
\* that resolve in the post store, each exactly once, even when an id occurs
\* in both sources or more than once in the timeline.
C15_FeedExactlyOnce ==
  \A u \in UserIds :
    LET feed == getUserFeed(readModel, u)
    IN /\ Range(feed)
            = {getChirp(readModel, id) :
                 id \in {i \in Range(FeedSourceIds(u)) : HasChirp(readModel, i)}}
       /\ \A i, j \in 1..Len(feed) : feed[i].chirpId = feed[j].chirpId => i = j

\* A post that resolves is both in the timeline of u and among the
\* celebrity posts u pulls, and another one is twice in the timeline of a
\* user; the feed returns each once.
C15_Witness ==
  /\ \E u \in UserIds :
       \E id \in Range(getMaterializedTimeline(readModel, u)) :
         /\ id \in Range(getCelebrityChirpsForUser(readModel, getFollowing(readModel, u)))
         /\ Cardinality({i \in 1..Len(getUserFeed(readModel, u)) :
                           getUserFeed(readModel, u)[i].chirpId = id}) = 1
  /\ \E u \in UserIds :
       \E i, j \in 1..Len(readModel.materializedTimelines[u]) :
         /\ i # j
         /\ readModel.materializedTimelines[u][i] = readModel.materializedTimelines[u][j]
         /\ Cardinality({k \in 1..Len(getUserFeed(readModel, u)) :
                           getUserFeed(readModel, u)[k].chirpId
                             = readModel.materializedTimelines[u][i]}) = 1

\* C16: whenever no command is in progress, every pair (follower, followee)
\* with isFollowing = true has a relationship id in the read store, and that
\* id names a FollowRelationship stream of the event log that is active.
C16_FollowingHasActiveRelationship ==
  Quiescent
  => \A f, e \in UserIds :
       isFollowing(readModel, f, e)
       => LET relationshipId == getFollowRelationshipId(readModel, f, e)
          IN /\ relationshipId # Nil
             /\ HasStream(events, relationshipId)
             /\ FollowRelationshipFromEvents(getEvents(events, relationshipId)).isActive

C18_VersionChecked ==
  [][\A i \in 1..Len(events') :
       LET stored == Len(getEvents(events, events'[i].aggregateId))
       IN \A k \in 1..(Len(events'[i].stream) - stored) :
            events'[i].stream[stored + k].version = stored + k]_vars

\* C19: getAllEvents() returns every stored event, ordered by occurredOn
\* ascending, and events with equal occurredOn in the order in which they
\* were appended to the log (eventId counts the appends), also when the tied
\* events belong to different aggregates.
C19_GlobalInsertionOrder ==
  LET all == getAllEvents(events)
  IN /\ Len(all) = Len(AllStored)
     /\ Range(all) = Stored
     /\ \A i, j \in 1..Len(all) :
          i < j
          => \/ all[i].occurredOn < all[j].occurredOn
             \/ /\ all[i].occurredOn = all[j].occurredOn
                /\ all[i].eventId < all[j].eventId

\* C20: events are projected one at a time in the order they were appended
\* to the log: when the projection of an event begins, the projection of
\* every event appended before it has completed, and no event is projected
\* after an event that was appended later.
C20_ProjectedInAppendOrder ==
  \A j \in 1..Len(projectedLog) :
    \A e \in Stored :
      e.eventId < projectedLog[j].eventId
      => /\ \E i \in 1..(j - 1) : projectedLog[i].eventId = e.eventId
         /\ \A i \in (j + 1)..Len(projectedLog) : projectedLog[i].eventId # e.eventId

\* C21: a query that runs while an event is being projected observes the
\* read store as it was before that projection or as it is after it: every
\* change of the read store that a query can observe is the whole
\* projection of an event that was waiting to be projected.
C21_ProjectionAtomic ==
  [][readModel' # readModel
     => \E s \in Sessions :
          /\ session[s].pc = "picked"
          /\ readModel' = projectEvent(readModel, session[s].lastEvent)]_vars

\* The step ends a command of s that has appended nothing.
EndsWithoutAppend(s) ==
  /\ session[s].pc \in {"checked", "loaded"}
  /\ session'[s].pc = "idle"

C23_DeleteOnlyByAuthor ==
  [][\A i \in 1..Len(events') :
       /\ Len(events'[i].stream) > Len(getEvents(events, events'[i].aggregateId))
       /\ Last(events'[i].stream).eventType = "ChirpDeleted"
       => \E s \in Sessions :
            /\ session[s].command.name = "DeleteChirp"
            /\ session[s].command.chirpId = events'[i].aggregateId
            /\ session[s].command.userId = events'[i].stream[1].authorId
            /\ events'[i].stream[1].eventType = "ChirpPosted"
            /\ session'[s].pc = "appended"]_vars

\* A chirp has been deleted by its author while another user, who may ask to
\* delete it as well, is registered.
C23_Witness ==
  \E i \in StreamsOfKind("chirp") :
    /\ Last(events[i].stream).eventType = "ChirpDeleted"
    /\ \E u \in getAllUsers(readModel) : u # events[i].stream[1].authorId

\* C24: the event log never holds a UserFollowed whose followerId equals its
\* followeeId, and no user is in their own following set.
C24_NoSelfFollow ==
  /\ \A e \in Stored : e.eventType = "UserFollowed" => e.followerId # e.followeeId
  /\ \A u \in UserIds : ~isFollowing(readModel, u, u)

\* The author is registered and has gained a follower, and a caller is idle:
\* FollowUser of the author by the author is on offer and appends nothing.
C24_Witness ==
  /\ \E a \in Authors :
       /\ getUserProfile(readModel, a) # NoName
       /\ Cardinality(getFollowers(readModel, a)) > CELEBRITY_THRESHOLD
       /\ <<a, a>> \in Follows
  /\ \E s \in Sessions : session[s].pc = "idle"

\* C25: for every ChirpPosted in the event log, a UserRegistered whose
\* aggregateId is that ChirpPosted's authorId was appended before it.
C25_AuthorRegisteredBefore ==
  \A e \in Stored :
    e.eventType = "ChirpPosted"
    => \E r \in Stored :
         /\ r.eventType = "UserRegistered"
         /\ r.aggregateId = e.authorId
         /\ r.eventId < e.eventId

\* A chirp is in the log, posted after a second user registered, by the
\* first.
C25_Witness ==
  \E e, r \in Stored :
    /\ e.eventType = "ChirpPosted"
    /\ r.eventType = "UserRegistered"
    /\ r.aggregateId # e.authorId
    /\ r.eventId < e.eventId

\* The event types of a stream, in stream order.
TypesOf(stream) == [k \in 1..Len(stream) |-> stream[k].eventType]

\* C26: post lifecycle: every chirp stream is one ChirpPosted, optionally
\* followed by exactly one ChirpDeleted; nothing is appended after the
\* ChirpDeleted.
C26_PostLifecycle ==
  \A i \in StreamsOfKind("chirp") :
    TypesOf(events[i].stream) \in {<<"ChirpPosted">>, <<"ChirpPosted", "ChirpDeleted">>}

\* C27: FollowRelationship lifecycle: every relationship stream is one
\* UserFollowed, optionally followed by exactly one UserUnfollowed; a follow
\* after an unfollow makes a new stream and the ended stream gets no more
\* events.
C27_RelationshipLifecycle ==
  \A i \in StreamsOfKind("rel") :
    TypesOf(events[i].stream) \in {<<"UserFollowed">>, <<"UserFollowed", "UserUnfollowed">>}

\* C28: the read store is changed only by projector steps: every step that
\* changes profiles, posts, follow graph, relationship index, timelines or
\* celebrity index is the projection that ends a projectEventsAfterCommand;
\* the steps of the command handlers leave the read store as it is (the
\* queries are functions of the read store).
C28_OnlyProjectorWrites ==
  [][readModel' # readModel
     => \E s \in Sessions :
          /\ session[s].pc = "picked"
          /\ session'[s].pc = "idle"
          /\ events' = events]_vars

\* A handler has appended its event and returned; the read store holds
\* profiles and posts, and not yet the event just appended.
C28_Witness ==
  \E s \in Sessions :
    /\ session[s].pc = "appended"
    /\ session[s].appended \notin Projected
    /\ readModel.chirps # <<>>
    /\ \E e \in Stored :
         /\ e.eventId = session[s].appended
         /\ e.eventType = "ChirpPosted"
         /\ ~HasChirp(readModel, e.aggregateId)

\* The read store reflects the whole event log: it is what the replay of the
\* log into an empty read store gives.
ReflectsLog == SameReadModel(rebuildProjections(EmptyReadModel, events), readModel)

\* C29: replay is idempotent: rebuildProjections run on a read store that
\* already reflects the whole event log leaves profiles, posts, follow
\* graph, timelines and celebrity index as they are.
C29_ReplayIdempotent ==
  Quiescent /\ ReflectsLog
  => SameReadModel(rebuildProjections(readModel, events), readModel)

\* The posts of e in the post store that were published before e crossed the
\* threshold: fewer than CELEBRITY_THRESHOLD UserFollowed events for e are
\* in the log before their ChirpPosted.
PublishedBelowThreshold(e) ==
  {p.aggregateId : p \in
     {q \in Stored :
        /\ q.eventType = "ChirpPosted"
        /\ q.authorId = e
        /\ HasChirp(readModel, q.aggregateId)
        /\ Cardinality({g \in Stored : /\ g.eventType = "UserFollowed"
                                       /\ g.followeeId = e
                                       /\ g.eventId < q.eventId})
             < CELEBRITY_THRESHOLD}}

\* The step of s projects a UserFollowed(f, e) and e already has at least
\* CELEBRITY_THRESHOLD followers other than f.
FollowsAfterCrossing(s) ==
  /\ ProjectsUserFollowed(s)
  /\ Cardinality(FollowersOf(session[s].lastEvent.followeeId)
                   \ {session[s].lastEvent.followerId}) >= CELEBRITY_THRESHOLD

\* C30 as stated: when f starts following e after e has crossed the
\* threshold, the posts e published before crossing are not added to the
\* timeline of f and are not returned by GetUserFeed(f).
C30_PreThresholdPostsHidden ==
  [][\A s \in Sessions :
       FollowsAfterCrossing(s)
       => \A id \in PublishedBelowThreshold(session[s].lastEvent.followeeId) :
            /\ id \notin Range(readModel'.materializedTimelines[session[s].lastEvent.followerId])
            /\ id \notin {c.chirpId :
                            c \in Range(getUserFeed(readModel',
                                                    session[s].lastEvent.followerId))}]_vars

\* C30 as amended: when f starts following e after e has crossed the
\* threshold, the projection adds nothing to the timeline of f; it puts
\* every post of e that the post store holds, the posts published before
\* the crossing included, into the celebrity index, and GetUserFeed(f)
\* returns them.
C30_PreThresholdPostsPulled ==
  [][\A s \in Sessions :
       FollowsAfterCrossing(s)
       => /\ readModel'.materializedTimelines = readModel.materializedTimelines
          /\ \A id \in PostIdsOf(readModel, session[s].lastEvent.followeeId) :
               /\ \E c \in Range(readModel'.celebrityChirps) : c.chirpId = id
               /\ id \in {c.chirpId :
                            c \in Range(getUserFeed(readModel',
                                                    session[s].lastEvent.followerId))}]_vars

\* The last projection was the first projection of a UserFollowed(f, e)
\* that took the celebrity branch; a post e published before crossing is
\* not in the timeline of f and is returned by GetUserFeed(f).
C30_Witness ==
  /\ projectedLog # <<>>
  /\ Last(projectedLog).celebrity
  /\ \A i \in 1..(Len(projectedLog) - 1) :
       projectedLog[i].eventId # Last(projectedLog).eventId
  /\ \E e \in Stored :
       /\ e.eventType = "UserFollowed"
       /\ e.eventId = Last(projectedLog).eventId
       /\ Cardinality(FollowersOf(e.followeeId) \ {e.followerId}) >= CELEBRITY_THRESHOLD
       /\ \E id \in PublishedBelowThreshold(e.followeeId) :
            /\ id \notin Range(readModel.materializedTimelines[e.followerId])
            /\ id \in FeedIds(e.followerId)

\* C31: projecting a ChirpDeleted whose chirp id is absent from the post
\* store is a no-op: the projection raises no error (its flow returns to the
\* caller) and leaves the whole read store unchanged.
C31_AbsentDeleteIsNoOp ==
  [][\A s \in Sessions :
       /\ session[s].pc = "picked"
       /\ session[s].lastEvent.eventType = "ChirpDeleted"
       /\ ~HasChirp(readModel, session[s].lastEvent.aggregateId)
       /\ session'[s].pc = "idle"
       => /\ readModel' = readModel
          /\ session[s].appended \in completed']_vars

\* The step of s projects a ChirpDeleted.
ProjectsChirpDeleted(s) ==
  /\ session[s].pc = "picked"
  /\ session[s].lastEvent.eventType = "ChirpDeleted"
  /\ ~ProjectionThrows(readModel, session[s].lastEvent)
  /\ session'[s].pc = "idle"

\* C32: after the ChirpDeleted of a post has been projected, the post is
\* absent from the celebrity index, whatever the follower count of the
\* author is at deletion time.
C32_DeletedLeavesCelebrityIndex ==
  [][\A s \in Sessions :
       ProjectsChirpDeleted(s)
       => \A c \in Range(readModel'.celebrityChirps) :
            c.chirpId # session[s].lastEvent.aggregateId]_vars

\* The postedAt of a chirp id: the time of its ChirpPosted event.
PostedAtOf(chirpId) ==
  (CHOOSE e \in Stored : e.eventType = "ChirpPosted" /\ e.aggregateId = chirpId).postedAt

\* C33: in every reachable state each materialized timeline is ordered
\* newest first: of any two entries, the one nearer the front has a
\* postedAt that is not older than the other's.
C33_TimelinesNewestFirst ==
  \A u \in UserIds :
    \A i, j \in 1..Len(readModel.materializedTimelines[u]) :
      i < j => PostedAtOf(readModel.materializedTimelines[u][i])
                 >= PostedAtOf(readModel.materializedTimelines[u][j])

\* C38: truncation discards the oldest entries: when the projection of
\* UserFollowed(f, e) backfills a non-celebrity e who has more than
\* MAX_TIMELINE_SIZE posts into the empty timeline of f, the timeline holds
\* MAX_TIMELINE_SIZE posts afterwards and no post of e that is missing from
\* it is newer than one it holds.
C38_BackfillKeepsNewest ==
  [][\A s \in Sessions :
       /\ ProjectsUserFollowed(s)
       /\ ~celebrityAsked(readModel, session[s].lastEvent)
       /\ readModel.materializedTimelines[session[s].lastEvent.followerId] = <<>>
       /\ Cardinality(PostIdsOf(readModel, session[s].lastEvent.followeeId)) > MAX_TIMELINE_SIZE
       => LET kept == Range(readModel'.materializedTimelines[session[s].lastEvent.followerId])
          IN /\ Cardinality(kept) = MAX_TIMELINE_SIZE
             /\ \A id \in kept :
                  \A missing \in PostIdsOf(readModel, session[s].lastEvent.followeeId) \ kept :
                    PostedAtOf(missing) <= PostedAtOf(id)]_vars

\* projectEvent as a caller sees it: a projection that throws has written
\* nothing.
ProjectOrThrow(rm, event) ==
  IF ProjectionThrows(rm, event) THEN rm ELSE projectEvent(rm, event)

\* The step of s ends the second of two projections of different events
\* that were in flight at the same time.
EndsConcurrentPair(s) ==
  /\ session[s].pc = "projecting"
  /\ session'[s].pc = "idle"
  /\ Len(session[s].group) = 2
  /\ session[s].group[1].eventId # session[s].group[2].eventId
  /\ \A t \in Sessions \ {s} : session[t].pc # "projecting"

\* C34: two projectEvent calls in flight at the same time leave the read
\* store in a state equal to projecting the two events one after the other
\* in one of the two orders.
C34_ProjectionsSerializable ==
  [][\A s \in Sessions :
       EndsConcurrentPair(s)
       => LET base == session[s].base
              a == session[s].group[1]
              b == session[s].group[2]
          IN \/ SameReadModel(readModel', ProjectOrThrow(ProjectOrThrow(base, a), b))
             \/ SameReadModel(readModel', ProjectOrThrow(ProjectOrThrow(base, b), a))]_vars

\* C35: under the loop 'handle a command, then projectEventsAfterCommand',
\* every appended event is projected exactly once: the event a caller's
\* projectEventsAfterCommand picks is the event its command has appended,
\* and no event is projected a second time.
C35_ProjectsAppendedOnce ==
  /\ \A s \in Sessions :
       session[s].pc = "picked" => session[s].lastEvent.eventId = session[s].appended
  /\ \A i, j \in 1..Len(projectedLog) :
       i # j => projectedLog[i].eventId # projectedLog[j].eventId

\* C36: in every reachable state no materialized timeline contains the same
\* post id twice.
C36_TimelinesWithoutDuplicates ==
  \A u \in UserIds :
    \A i, j \in 1..Len(readModel.materializedTimelines[u]) :
      i # j => readModel.materializedTimelines[u][i] # readModel.materializedTimelines[u][j]

\* The projection of the event on rm cuts a timeline: the fan-out reaches a
\* timeline that is full, or the backfill brings more ids than there is room.
Truncates(rm, event) ==
  CASE event.eventType = "ChirpPosted" ->
         /\ ~isCelebrity(rm, event.authorId)
         /\ \E u \in getFollowers(rm, event.authorId) :
              Len(rm.materializedTimelines[u]) >= MAX_TIMELINE_SIZE
    [] event.eventType = "UserFollowed" ->
         /\ ~celebrityAsked(rm, event)
         /\ Len(rm.materializedTimelines[event.followerId])
              + Len(getChirpsByAuthor(rm, event.followeeId)) > MAX_TIMELINE_SIZE
    [] OTHER -> FALSE

EventOfId(eventId) == CHOOSE e \in Stored : e.eventId = eventId

\* Some projection of the first k entries of projectedLog, applied in order
\* to rm, cuts a timeline.
RECURSIVE TruncatedFrom(_, _)
TruncatedFrom(rm, k) ==
  IF k > Len(projectedLog) THEN FALSE
  ELSE \/ Truncates(rm, EventOfId(projectedLog[k].eventId))
       \/ TruncatedFrom(projectEvent(rm, EventOfId(projectedLog[k].eventId)), k + 1)

EverTruncated == TruncatedFrom(EmptyReadModel, 1)

C39_IndexAgreesWithGraph ==
  NoProjectionInProgress
  => \A f, e \in UserIds :
       getFollowRelationshipId(readModel, f, e) # Nil <=> isFollowing(readModel, f, e)

\* A follow and an unfollow have been projected during the run: one pair
\* follows under a relationship id created by a command, another pair, whose
\* UserUnfollowed has been projected, has neither the edge nor an id.
C39_Witness ==
  /\ NoProjectionInProgress
  /\ \E e \in Stored :
       /\ e.eventType = "UserFollowed"
       /\ e.eventId \in Projected
       /\ e.eventId > MaxUsers + CELEBRITY_THRESHOLD
       /\ isFollowing(readModel, e.followerId, e.followeeId)
       /\ getFollowRelationshipId(readModel, e.followerId, e.followeeId) = e.aggregateId
  /\ \E e \in Stored :
       /\ e.eventType = "UserUnfollowed"
       /\ e.eventId \in Projected
       /\ ~isFollowing(readModel, e.followerId, e.followeeId)
       /\ getFollowRelationshipId(readModel, e.followerId, e.followeeId) = Nil

\* The read store after the first n projections of projectedLog, applied in
\* order to rm from the k-th on.
RECURSIVE ProjectedUpTo(_, _, _)
ProjectedUpTo(rm, k, n) ==
  IF k > n THEN rm
  ELSE ProjectedUpTo(projectEvent(rm, EventOfId(projectedLog[k].eventId)), k + 1, n)

\* C40: follow/unfollow round trip: when the last two projections are
\* UserFollowed(f, e), with f not following e before, and the UserUnfollowed
\* of the same relationship, e was no celebrity in either and the backfill
\* cut nothing, the timelines, the
\* follow graph and the relationship index are as they were before the
\* follow was projected.
C40_FollowUnfollowRoundTrip ==
  LET n == Len(projectedLog)
      followed == EventOfId(projectedLog[n - 1].eventId)
      unfollowed == EventOfId(projectedLog[n].eventId)
      before == ProjectedUpTo(EmptyReadModel, 1, n - 2)
  IN /\ n >= 2
     /\ followed.eventType = "UserFollowed"
     /\ unfollowed.eventType = "UserUnfollowed"
     /\ unfollowed.aggregateId = followed.aggregateId
     /\ ~isFollowing(before, followed.followerId, followed.followeeId)
     /\ ~projectedLog[n - 1].celebrity
     /\ ~projectedLog[n].celebrity
     /\ ~Truncates(before, followed)
     => /\ readModel.materializedTimelines = before.materializedTimelines
        /\ readModel.following = before.following
        /\ readModel.followRelationshipIds = before.followRelationshipIds
====
